---- MODULE Spec2Model ----
(***************************************************************************)
(* A model of @rowanmanning/resave (src/lib/resave.js): the middleware     *)
(* generator, the option objects it shares with its caller, and the        *)
(* request handler `middleware` with its two suspension points (the        *)
(* awaited createBundle call and the awaited writeFile call).              *)
(*                                                                         *)
(* JavaScript values are tagged records [t |-> type, v |-> payload]; the   *)
(* payload is always a tuple so that any two values can be compared.  A    *)
(* string is the tuple of its pieces: paths are spelled character by       *)
(* character, template literals are the concatenation of their literal     *)
(* pieces and the interpolated strings.                                    *)
(***************************************************************************)
EXTENDS Naturals, Sequences, FiniteSets, Bags, TLC

(***************************************************************************)
(* Values                                                                  *)
(***************************************************************************)
Str(s) == [t |-> "string", v |-> s]
Null == [t |-> "null", v |-> <<>>]
Undefined == [t |-> "undefined", v |-> <<>>]
Num(n) == [t |-> "number", v |-> <<n>>]
Ref(id) == [t |-> "object", v |-> id]
Err(name) == [t |-> "error", v |-> <<name>>]
True == [t |-> "boolean", v |-> <<TRUE>>]

IsString(x) == x.t = "string"

\* JavaScript truthiness, as used by `!sourcePath`, `options.savePath ? ...`
\* and `if (fullSavePath)`.
Truthy(x) ==
    CASE x.t = "string" -> x.v # <<>>
      [] x.t = "number" -> x.v # <<0>>
      [] x.t \in {"null", "undefined"} -> FALSE
      [] OTHER -> TRUE

\* `${error.stack}` of an Error value.
Stack(e) == <<"Error: ">> \o e.v \o <<"\n    at <anonymous>">>

(***************************************************************************)
(* path.join (POSIX): join the non-empty arguments with "/" and normalize. *)
(***************************************************************************)
Slash == "/"

RECURSIVE SplitAcc(_, _, _)
\* The segments of s between slashes; cur is the segment being read.
SplitAcc(s, cur, acc) ==
    IF s = <<>> THEN Append(acc, cur)
    ELSE IF Head(s) = Slash THEN SplitAcc(Tail(s), <<>>, Append(acc, cur))
    ELSE SplitAcc(Tail(s), Append(cur, Head(s)), acc)

Split(s) == SplitAcc(s, <<>>, <<>>)

RECURSIVE NormalizeSegs(_, _, _)
\* normalizeString: drops empty and "." segments, resolves ".." against the
\* segments kept so far (kept when nothing can be popped and allowAbove).
NormalizeSegs(segs, out, allowAbove) ==
    IF segs = <<>> THEN out
    ELSE LET seg == Head(segs) IN
         IF seg = <<>> \/ seg = <<".">>
         THEN NormalizeSegs(Tail(segs), out, allowAbove)
         ELSE IF seg = <<".", ".">>
         THEN IF out # <<>> /\ out[Len(out)] # <<".", ".">>
              THEN NormalizeSegs(Tail(segs), SubSeq(out, 1, Len(out) - 1), allowAbove)
              ELSE IF allowAbove
              THEN NormalizeSegs(Tail(segs), Append(out, seg), allowAbove)
              ELSE NormalizeSegs(Tail(segs), out, allowAbove)
         ELSE NormalizeSegs(Tail(segs), Append(out, seg), allowAbove)

RECURSIVE JoinSegs(_)
JoinSegs(segs) ==
    IF segs = <<>> THEN <<>>
    ELSE IF Len(segs) = 1 THEN Head(segs)
    ELSE Head(segs) \o <<Slash>> \o JoinSegs(Tail(segs))

PathNormalize(p) ==
    IF p = <<>> THEN <<".">>
    ELSE LET isAbsolute == Head(p) = Slash
             trailingSeparator == p[Len(p)] = Slash
             body == JoinSegs(NormalizeSegs(Split(p), <<>>, ~isAbsolute))
         IN IF body = <<>>
            THEN IF isAbsolute THEN <<Slash>>
                 ELSE IF trailingSeparator THEN <<".", Slash>> ELSE <<".">>
            ELSE (IF isAbsolute THEN <<Slash>> ELSE <<>>) \o body
                 \o (IF trailingSeparator THEN <<Slash>> ELSE <<>>)

\* path.join(a, b) on two strings (tuples of characters).
PathJoinStrings(a, b) ==
    IF a = <<>> /\ b = <<>> THEN <<".">>
    ELSE IF a = <<>> THEN PathNormalize(b)
    ELSE IF b = <<>> THEN PathNormalize(a)
    ELSE PathNormalize(a \o <<Slash>> \o b)

\* path.join validates that every argument is a string and throws a
\* TypeError otherwise.
PathJoinThrows(a, b) == ~IsString(a) \/ ~IsString(b)
PathJoin(a, b) == Str(PathJoinStrings(a.v, b.v))

(***************************************************************************)
(* mime.getType: the type registered for the extension of the last path    *)
(* segment, or null.                                                       *)
(***************************************************************************)
RECURSIVE AfterLast(_, _, _)
\* The part of s after the last occurrence of ch (all of s when absent).
AfterLast(s, ch, cur) ==
    IF s = <<>> THEN cur
    ELSE IF Head(s) = ch THEN AfterLast(Tail(s), ch, <<>>)
    ELSE AfterLast(Tail(s), ch, Append(cur, Head(s)))

MimeTypes(ext) ==
    CASE ext = <<"c", "s", "s">> -> Str(<<"text/css">>)
      [] ext = <<"j", "s">> -> Str(<<"application/javascript">>)
      [] ext = <<"s", "c", "s", "s">> -> Str(<<"text/x-scss">>)
      [] OTHER -> Null

MimeGetType(p) ==
    LET last == AfterLast(p, Slash, <<>>)
        ext == AfterLast(last, ".", <<>>)
        hasPath == Len(last) < Len(p)
        hasDot == Len(ext) + 1 < Len(last)
    IN IF hasDot \/ ~hasPath THEN MimeTypes(ext) ELSE Null

(***************************************************************************)
(* request.path of an Express request: the pathname of request.url, the    *)
(* URL up to its first "?" or "#".                                         *)
(***************************************************************************)
RECURSIVE Pathname(_)
Pathname(url) ==
    IF url = <<>> \/ Head(url) \in {"?", "#"} THEN <<>>
    ELSE <<Head(url)>> \o Pathname(Tail(url))

\* Mutant: the handler matches on request.url.
RequestPathIsUrl(url) == url

\* The request.path the handler reads.
RequestPath(url) == Pathname(url)

(***************************************************************************)
(* The model's universe: the strings and objects the caller works with.    *)
(***************************************************************************)
PathCss == <<"/", "a", ".", "c", "s", "s">>       \* "/a.css", a bundle
PathEmpty == <<"/", "e", ".", "j", "s">>          \* "/e.js", a key mapped to ""
PathNone == <<"/", "n", ".", "c", "s", "s">>      \* "/n.css", not a key
SourceScss == <<"a", ".", "s", "c", "s", "s">>    \* "a.scss"
SourceNone == <<"n", ".", "j", "s">>              \* "n.js"
Cwd == <<"/", "w">>                               \* process.cwd()
BaseDir == <<"/", "b">>
SaveDir == <<"/", "p">>
OtherDir == <<"/", "q">>

RequestPaths == {PathCss, PathEmpty, PathNone}

\* Request URLs: the paths above, and a bundle's path followed by a query
\* string or by a fragment.
UrlWithQuery == PathCss \o <<"?", "v", "=", "1">>      \* "/a.css?v=1"
UrlWithFragment == PathCss \o <<"#", "x">>             \* "/a.css#x"
RequestUrls == {UrlWithQuery, UrlWithFragment}
Contents == {Str(<<"body{}">>), Str(<<"html{}">>)}

CompileError == Err("mock create bundle error")
SaveError == Err("mock save error")
SinkError == Err("log sink error")
ResponseError == Err("response error")
NextError == Err("next error")
TypeError == Err("TypeError")

\* Object identities.
DefaultOptionsId == <<"defaultOptions", 0>>
UserOptionsId == <<"userOptions", 0>>
ResolvedId(n) == <<"resolved", n>>
DefaultBundlesId == <<"defaultBundles", 0>>
UserBundlesId == <<"userBundles", 0>>
DefaultLogId == <<"defaultLog", 0>>
UserLogId == <<"userLog", 0>>

\* A finite function given by its pairs.
Obj(pairs) == [k \in {pr[1] : pr \in pairs} |-> (CHOOSE pr \in pairs : pr[1] = k)[2]]

\* The caller's log object: each method, when present, is a function of the
\* caller, one that returns ("sink") or one that throws ("thrower").  The
\* methods of the default log are `noop`.
Sinks == [m \in {"info", "error"} |-> "sink"]
UserLogChoices ==
    { Sinks,
      [Sinks EXCEPT !["info"] = "thrower"],
      [Sinks EXCEPT !["error"] = "thrower"],
      [m \in {"error"} |-> "sink"],
      [m \in {"info"} |-> "sink"] }

\* The options object and log object the caller starts with: the options of
\* the tests (with and without savePath) and of the README, and malformed
\* ones.
CallerChoices ==
    { [options |-> Obj({<<"basePath", Str(BaseDir)>>, <<"bundles", Ref(UserBundlesId)>>,
                        <<"log", Ref(UserLogId)>>, <<"savePath", Str(SaveDir)>>}),
       log |-> l] : l \in UserLogChoices }
    \cup
    { [options |-> o, log |-> Sinks] : o \in
        { Obj({<<"basePath", Str(BaseDir)>>, <<"bundles", Ref(UserBundlesId)>>,
               <<"log", Ref(UserLogId)>>, <<"savePath", Null>>}),
          Obj({<<"bundles", Ref(UserBundlesId)>>, <<"isUserOptions", True>>,
               <<"savePath", Str(SaveDir)>>}),
          Obj({<<"bundles", Ref(UserBundlesId)>>, <<"savePath", Str(<<>>)>>}),
          Obj({<<"basePath", Num(1)>>, <<"bundles", Ref(UserBundlesId)>>}),
          Obj({<<"bundles", Ref(UserBundlesId)>>, <<"savePath", Num(1)>>}),
          Obj({<<"bundles", Null>>, <<"log", Null>>, <<"savePath", Str(SaveDir)>>}) } }

\* The caller's calls (configurations, assignments to its objects and
\* requests) are explored up to this number.
MaxCalls == 3

VARIABLES
    optObjs,      \* options objects: defaultOptions, the caller's, the resolved ones
    bundleObjs,   \* `bundles` objects
    logObjs,      \* `log` objects
    instances,    \* the options object bound into each middleware function
    configured,   \* the argument of the generator call that made each of them
    requests,     \* the bag of the calls of the middleware functions: one record
                  \* per call, holding the locals of the call and its trace
    files,        \* the file system: path -> content
    calls         \* the number of calls the caller has made

vars == <<optObjs, bundleObjs, logObjs, instances, configured, requests, files, calls>>

(***************************************************************************)
(* Calls the handler makes.  A run is the trace of calls made so far in    *)
(* the current step, with the exception in flight when ok is FALSE.  F is  *)
(* the set of call sites on the response and on `next` that throw in this  *)
(* step.                                                                   *)
(***************************************************************************)
Get(obj, key) == IF key \in DOMAIN obj THEN obj[key] ELSE Undefined

Event(op, args, result) == [op |-> op, args |-> args, result |-> result]

Run(trace) == [trace |-> trace, ok |-> TRUE, err |-> Undefined]

Throw(run, e) == [run EXCEPT !.ok = FALSE, !.err = e]

\* Mutant: a rejection of the awaited promise is dropped.
AwaitedIgnoresRejection(run, result) == run

\* `await promise` once the promise has settled: the rejection is thrown.
Awaited(run, result) == IF result.t = "error" THEN Throw(run, result) ELSE run

\* A call of a function of the environment: it returns or throws e.
Call(run, op, args, throws, e) ==
    IF ~run.ok THEN run
    ELSE [trace |-> Append(run.trace,
                           Event(op, args, IF throws THEN "threw" ELSE "returned")),
          ok |-> ~throws,
          err |-> IF throws THEN e ELSE run.err]

\* options.log[method](message): a TypeError when options.log has no such
\* function (the trace keeps the attempt, with result "notAFunction": no
\* sink received the message); otherwise the function is called and returns
\* or throws.
Log(run, o, logs, method, message) ==
    IF ~run.ok THEN run
    ELSE LET log == Get(o, "log") IN
         IF log.t # "object" \/ method \notin DOMAIN logs[log.v]
         THEN [trace |-> Append(run.trace, Event(method, <<Str(message)>>, "notAFunction")),
               ok |-> FALSE, err |-> TypeError]
         ELSE Call(run, method, <<Str(message)>>, logs[log.v][method] = "thrower", SinkError)

Quoted(requestPath) == <<"Bundle \"">> \o requestPath \o <<"\"">>
CompiledMessage(requestPath) == Quoted(requestPath) \o <<" compiled">>
SavedMessage(requestPath) == Quoted(requestPath) \o <<" saved">>
ServedMessage(requestPath) == Quoted(requestPath) \o <<" served">>
CompileFailedMessage(requestPath, e) ==
    Quoted(requestPath) \o <<" failed to compile: ">> \o Stack(e)
SaveFailedMessage(requestPath, e) ==
    Quoted(requestPath) \o <<" failed to save: ">> \o Stack(e)

\* Mutant: the body is sent without a Content-Type header.
ServeBundleWithoutHeader(run, requestPath, content, F) ==
    Call(run, "send", <<content>>, "send" \in F, ResponseError)

\* Mutant: the response is also sent once more after the header.
ServeBundleSendsTwice(run, requestPath, content, F) ==
    LET header == Call(run, "set", <<Str(<<"Content-Type">>), MimeGetType(requestPath)>>,
                       "set" \in F, ResponseError)
        first == Call(header, "send", <<MimeGetType(requestPath)>>, "send" \in F,
                      ResponseError)
    IN Call(first, "send", <<content>>, "send" \in F, ResponseError)

\* serveBundle(response, requestPath, content)
ServeBundle(run, requestPath, content, F) ==
    LET header == Call(run, "set", <<Str(<<"Content-Type">>), MimeGetType(requestPath)>>,
                       "set" \in F, ResponseError)
    IN Call(header, "send", <<content>>, "send" \in F, ResponseError)

\* Mutant: the outer catch block rethrows the error, next is not called.
CatchNextRethrows(run, F) ==
    [trace |-> run.trace, promise |-> IF run.ok THEN "fulfilled" ELSE "rejected"]

\* Mutant: the outer catch block drops the error.
CatchNextSwallows(run, F) == [trace |-> run.trace, promise |-> "fulfilled"]

\* The handler's outer `catch (error) { return next(error); }`: the promise
\* the async function returned settles with what the run ends with.
CatchNext(run, F) ==
    IF run.ok THEN [trace |-> run.trace, promise |-> "fulfilled"]
    ELSE LET after == Call(Run(run.trace), "next", <<run.err>>, "catchNext" \in F, NextError)
         IN [trace |-> after.trace,
             promise |-> IF after.ok THEN "fulfilled" ELSE "rejected"]

\* Mutant: the inner catch block logs the error and does not rethrow it.
CatchAndLogSwallows(run, o, logs, message) ==
    IF run.ok THEN run ELSE Log(Run(run.trace), o, logs, "error", message)

\* Mutant: the inner catch block rethrows without logging.
CatchAndRethrow(run, o, logs, message) == run

\* Mutant: the inner catch block hands the error to next itself before it
\* rethrows it.
CatchAndLogCallsNext(run, o, logs, message) ==
    IF run.ok THEN run
    ELSE LET logged == Log(Run(run.trace), o, logs, "error", message)
             handed == Call(logged, "next", <<run.err>>, FALSE, NextError)
         IN IF handed.ok THEN Throw(handed, run.err) ELSE handed

\* The inner `catch (bundleError)` / `catch (saveError)`: log, then rethrow.
CatchAndLog(run, o, logs, message) ==
    IF run.ok THEN run
    ELSE LET logged == Log(Run(run.trace), o, logs, "error", message)
         IN IF logged.ok THEN Throw(logged, run.err) ELSE logged

\* Mutant: only a null source path is taken for "no bundle".
IsBundleRequestUnlessNull(sourcePath) == sourcePath.t # "null"

\* `if (!sourcePath) return next()` decides whether the request is a bundle's.
IsBundleRequest(sourcePath) == Truthy(sourcePath)

\* options.bundles[request.path]
BundleLookupThrows(o) == Get(o, "bundles").t \in {"null", "undefined"}
BundleLookup(o, bundles, requestPath) ==
    LET b == Get(o, "bundles") IN
    IF b.t = "object" THEN Get(bundles[b.v], requestPath) ELSE Undefined

FullSourcePathThrows(o, sourcePath) == PathJoinThrows(Get(o, "basePath"), sourcePath)
FullSourcePath(o, sourcePath) == PathJoin(Get(o, "basePath"), sourcePath)

\* Mutant: the save directory itself is taken for the file to write.
FullSavePathWithoutJoin(o, requestPath) ==
    IF Truthy(Get(o, "savePath")) THEN Get(o, "savePath") ELSE Null

\* Mutant: the bundle is never saved.
FullSavePathDisabled(o, requestPath) == Null

FullSavePathThrows(o, requestPath) ==
    Truthy(Get(o, "savePath")) /\ PathJoinThrows(Get(o, "savePath"), Str(requestPath))
FullSavePath(o, requestPath) ==
    IF Truthy(Get(o, "savePath"))
    THEN PathJoin(Get(o, "savePath"), Str(requestPath))
    ELSE Null

\* The argument list of the createBundle call.
BundleDetails(options, requestPath, sourcePath, savePath) ==
    [t |-> "bundleDetails", v |-> <<options, requestPath, sourcePath, savePath>>]
\* Mutant: createBundle is not told where the bundle will be saved.
CreateBundleArgumentsWithoutSavePath(oid, requestPath, fullSourcePath, fullSavePath) ==
    <<BundleDetails(Ref(oid), Str(requestPath), fullSourcePath, Null)>>

CreateBundleArguments(oid, requestPath, fullSourcePath, fullSavePath) ==
    <<BundleDetails(Ref(oid), Str(requestPath), fullSourcePath, fullSavePath)>>

(***************************************************************************)
(* The handler, one operator per stretch of `middleware` that runs without *)
(* suspending.  Each yields the request's record after the stretch.        *)
(***************************************************************************)
Ended(req, end) ==
    [req EXCEPT !.pc = "done", !.trace = end.trace, !.promise = end.promise]

\* The file a static-file server reads for the request path, given the
\* configured savePath.
SavedFile(o, fs, requestPath) ==
    IF IsString(Get(o, "savePath")) /\ Truthy(Get(o, "savePath"))
    THEN Get(fs, PathJoinStrings(Get(o, "savePath").v, requestPath))
    ELSE Undefined

\* Mutant: the served entry is logged once the response has been sent.
ServeLogsAfterSending(req, run, o, logs, fs, F) ==
    LET sent == ServeBundle(run, req.path, req.bundleContent, F)
        served == Log(sent, o, logs, "info", ServedMessage(req.path))
        sending == \E k \in 1..Len(sent.trace) :
                       k > Len(run.trace) /\ sent.trace[k].op = "send"
    IN [Ended(req, CatchNext(served, F)) EXCEPT
           !.fileAtSend = IF sending THEN SavedFile(o, fs, req.path) ELSE @]

\* Mutant: with a save directory, the body sent is read back from the saved
\* file.
ServeSavedFile(req, run, o, logs, fs, F) ==
    LET served == Log(run, o, logs, "info", ServedMessage(req.path))
        content == IF SavedFile(o, fs, req.path) = Undefined THEN req.bundleContent
                   ELSE SavedFile(o, fs, req.path)
        sent == ServeBundle(served, req.path, content, F)
        sending == \E k \in 1..Len(sent.trace) :
                       k > Len(run.trace) /\ sent.trace[k].op = "send"
    IN [Ended(req, CatchNext(sent, F)) EXCEPT
           !.fileAtSend = IF sending THEN SavedFile(o, fs, req.path) ELSE @]

\* From the served log entry to the end of the try block.  fileAtSend
\* records what the saved file holds when response.send is called.
Serve(req, run, o, logs, fs, F) ==
    LET served == Log(run, o, logs, "info", ServedMessage(req.path))
        sent == ServeBundle(served, req.path, req.bundleContent, F)
        sending == \E k \in 1..Len(sent.trace) :
                       k > Len(run.trace) /\ sent.trace[k].op = "send"
    IN [Ended(req, CatchNext(sent, F)) EXCEPT
           !.fileAtSend = IF sending THEN SavedFile(o, fs, req.path) ELSE @]

\* From the call of the middleware to the first suspension.  `lookup`
\* records how options.bundles[request.path] went: it threw, the path is a
\* key of the bundles object, or it is not.
Begin(i, oid, o, bundles, logs, url, F, syncThrow) ==
    LET requestPath == RequestPath(url)
        sourcePath == BundleLookup(o, bundles, requestPath)
        req == [inst |-> i, url |-> url, path |-> requestPath, pc |-> "awaitCompile",
                lookup |-> IF BundleLookupThrows(o) THEN "threw"
                           ELSE IF Get(o, "bundles").t = "object"
                                   /\ requestPath \in DOMAIN bundles[Get(o, "bundles").v]
                           THEN "key" ELSE "noKey",
                sourcePath |-> sourcePath,
                fullSourcePath |-> Undefined, fullSavePath |-> Undefined,
                compileResult |-> Undefined, bundleContent |-> Undefined,
                writeResult |-> Undefined, fileAtSend |-> Undefined,
                returned |-> Undefined, trace |-> <<>>, promise |-> "pending"]
    IN IF BundleLookupThrows(o)
       THEN Ended(req, CatchNext(Throw(Run(<<>>), TypeError), F))
       ELSE IF ~IsBundleRequest(sourcePath)
       THEN Ended(req, CatchNext(Call(Run(<<>>), "next", <<>>, "next" \in F, NextError), F))
       ELSE IF FullSourcePathThrows(o, sourcePath) \/ FullSavePathThrows(o, requestPath)
       THEN Ended(req, CatchNext(Throw(Run(<<>>), TypeError), F))
       ELSE LET fullSourcePath == FullSourcePath(o, sourcePath)
                fullSavePath == FullSavePath(o, requestPath)
                called == Call(Run(<<>>), "createBundle",
                               CreateBundleArguments(oid, requestPath, fullSourcePath,
                                                     fullSavePath),
                               syncThrow, CompileError)
                started == [req EXCEPT !.fullSourcePath = fullSourcePath,
                                       !.fullSavePath = fullSavePath,
                                       !.trace = called.trace]
            IN IF called.ok THEN started
               ELSE Ended([started EXCEPT !.compileResult = CompileError],
                          CatchNext(CatchAndLog(called, o, logs,
                                                CompileFailedMessage(requestPath, called.err)),
                                    F))

\* From the settlement of the createBundle promise to the next suspension.
AfterCompile(req, o, logs, fs, outcome, F) ==
    LET got == [req EXCEPT !.compileResult = outcome,
                           !.bundleContent = IF outcome.t = "error" THEN @ ELSE outcome]
        awaited == Log(Awaited(Run(req.trace), outcome), o, logs, "info",
                       CompiledMessage(req.path))
        tried == CatchAndLog(awaited, o, logs,
                             CompileFailedMessage(req.path, awaited.err))
    IN IF ~tried.ok THEN Ended(got, CatchNext(tried, F))
       ELSE IF Truthy(req.fullSavePath)
       THEN [got EXCEPT !.pc = "awaitWrite",
                        !.trace = Call(tried, "writeFile",
                                       <<req.fullSavePath, got.bundleContent>>,
                                       FALSE, Undefined).trace]
       ELSE Serve(got, tried, o, logs, fs, F)

\* From the settlement of the writeFile promise to the end.
AfterWrite(req, o, logs, fs, F) ==
    LET awaited == Log(Awaited(Run(req.trace), req.writeResult), o, logs, "info",
                       SavedMessage(req.path))
        tried == CatchAndLog(awaited, o, logs,
                             SaveFailedMessage(req.path, awaited.err))
    IN IF ~tried.ok THEN Ended(req, CatchNext(tried, F))
       ELSE Serve(req, tried, o, logs, fs, F)

(***************************************************************************)
(* The middleware generator.                                               *)
(***************************************************************************)
\* Mutant: Object.assign(module.exports.defaultOptions, userOptions), the
\* defaults themselves are the target and are bound into the middleware.
ApplyDefaultOptionsInPlace(objs, userOptions, n) ==
    LET defaults == objs[DefaultOptionsId]
        given == IF userOptions.t = "object" THEN DOMAIN objs[userOptions.v] ELSE {}
        merged == [k \in DOMAIN defaults \cup given |->
                      IF k \in given THEN objs[userOptions.v][k] ELSE defaults[k]]
    IN [id |-> DefaultOptionsId, objs |-> [objs EXCEPT ![DefaultOptionsId] = merged]]

\* Mutant: only the keys the defaults know are taken from userOptions.
ApplyDefaultOptionsKnownKeys(objs, userOptions, n) ==
    LET defaults == objs[DefaultOptionsId]
        given == IF userOptions.t = "object" THEN DOMAIN objs[userOptions.v] ELSE {}
        created == [k \in DOMAIN defaults |->
                       IF k \in given THEN objs[userOptions.v][k] ELSE defaults[k]]
    IN [id |-> ResolvedId(n),
        objs |-> [id \in DOMAIN objs \cup {ResolvedId(n)} |->
                     IF id = ResolvedId(n) THEN created ELSE objs[id]]]

\* Mutant: Object.assign(userOptions, module.exports.defaultOptions), the
\* caller's object is filled in with the defaults it lacks and is bound into
\* the middleware.
ApplyDefaultOptionsIntoUserOptions(objs, userOptions, n) ==
    IF userOptions.t # "object"
    THEN [id |-> ResolvedId(n),
          objs |-> [id \in DOMAIN objs \cup {ResolvedId(n)} |->
                       IF id = ResolvedId(n) THEN objs[DefaultOptionsId] ELSE objs[id]]]
    ELSE LET defaults == objs[DefaultOptionsId]
             given == DOMAIN objs[userOptions.v]
             merged == [k \in DOMAIN defaults \cup given |->
                           IF k \in given THEN objs[userOptions.v][k] ELSE defaults[k]]
         IN [id |-> userOptions.v, objs |-> [objs EXCEPT ![userOptions.v] = merged]]

\* Object.assign({}, module.exports.defaultOptions, userOptions): a new
\* object with the own keys of the defaults, then those of userOptions (a
\* source that is undefined is skipped).  Nested objects are not copied.
ApplyDefaultOptions(objs, userOptions, n) ==
    LET defaults == objs[DefaultOptionsId]
        given == IF userOptions.t = "object" THEN DOMAIN objs[userOptions.v] ELSE {}
        created == [k \in DOMAIN defaults \cup given |->
                       IF k \in given THEN objs[userOptions.v][k] ELSE defaults[k]]
    IN [id |-> ResolvedId(n),
        objs |-> [id \in DOMAIN objs \cup {ResolvedId(n)} |->
                     IF id = ResolvedId(n) THEN created ELSE objs[id]]]

DefaultOptions ==
    [k \in {"basePath", "bundles", "log", "savePath"} |->
        CASE k = "basePath" -> Str(Cwd)
          [] k = "bundles" -> Ref(DefaultBundlesId)
          [] k = "log" -> Ref(DefaultLogId)
          [] k = "savePath" -> Null]

UserBundles ==
    [k \in {PathCss, PathEmpty} |-> IF k = PathCss THEN Str(SourceScss) ELSE Str(<<>>)]

Init ==
    /\ \E c \in CallerChoices :
          /\ optObjs = [id \in {DefaultOptionsId, UserOptionsId} |->
                           IF id = DefaultOptionsId THEN DefaultOptions ELSE c.options]
          /\ logObjs = [id \in {DefaultLogId, UserLogId} |->
                           IF id = DefaultLogId
                           THEN [m \in {"info", "error"} |-> "noop"] ELSE c.log]
    /\ bundleObjs = [id \in {DefaultBundlesId, UserBundlesId} |->
                        IF id = DefaultBundlesId THEN Obj({}) ELSE UserBundles]
    /\ instances = <<>>
    /\ configured = <<>>
    /\ requests = EmptyBag
    /\ files = Obj({})
    /\ calls = 0

\* resave(createBundle)(options): the returned middleware is bound to the
\* resolved options object.
Configure(userOptions) ==
    /\ calls < MaxCalls
    /\ LET made == ApplyDefaultOptions(optObjs, userOptions, Len(instances) + 1) IN
          /\ optObjs' = made.objs
          /\ instances' = Append(instances, made.id)
    /\ configured' = Append(configured, userOptions)
    /\ calls' = calls + 1
    /\ UNCHANGED <<bundleObjs, logObjs, requests, files>>

\* Mutant: a bundle whose saved file exists is not compiled again, the
\* request is passed on for the static middleware to answer.
HandleSkipsSavedBundles(i, url, F, syncThrow) ==
    /\ calls < MaxCalls
    /\ LET began == Begin(i, instances[i], optObjs[instances[i]], bundleObjs, logObjs,
                         url, F, syncThrow)
           saved == IsString(began.fullSavePath) /\ began.fullSavePath.v \in DOMAIN files
       IN requests' = requests (+) SetToBag({
              IF saved
              THEN [began EXCEPT !.pc = "done", !.promise = "fulfilled",
                                 !.trace = <<Event("next", <<>>, "returned")>>]
              ELSE began})
    /\ calls' = calls + 1
    /\ UNCHANGED <<optObjs, bundleObjs, logObjs, instances, configured, files>>

\* middleware(request, response, next) up to its first suspension.
Handle(i, url, F, syncThrow) ==
    /\ calls < MaxCalls
    /\ requests' = requests (+) SetToBag({Begin(i, instances[i], optObjs[instances[i]],
                                                bundleObjs, logObjs, url, F,
                                                syncThrow)})
    /\ calls' = calls + 1
    /\ UNCHANGED <<optObjs, bundleObjs, logObjs, instances, configured, files>>

\* One call of the bag moves on.
Replace(req, new) == (requests (-) SetToBag({req})) (+) SetToBag({new})

\* Mutant: the createBundle calls are queued one behind the other, none
\* settles while a createBundle call hangs.
CompileSettlesQueued(req, outcome, F) ==
    /\ req.pc = "awaitCompile"
    /\ \A r \in BagToSet(requests) : r.pc # "hungCompile"
    /\ requests' = Replace(req, AfterCompile(req, optObjs[instances[req.inst]], logObjs,
                                             files, outcome, F))
    /\ UNCHANGED <<optObjs, bundleObjs, logObjs, instances, configured, files, calls>>

\* The createBundle promise settles and the handler resumes.
CompileSettles(req, outcome, F) ==
    /\ req.pc = "awaitCompile"
    /\ requests' = Replace(req, AfterCompile(req, optObjs[instances[req.inst]], logObjs,
                                             files, outcome, F))
    /\ UNCHANGED <<optObjs, bundleObjs, logObjs, instances, configured, files, calls>>

Resolved == [t |-> "resolved", v |-> <<>>]

\* The write finishes in the file system: the file holds the content, or
\* the write has failed.  The handler has not resumed yet.
WriteSettles(req, ok) ==
    /\ req.pc = "awaitWrite"
    /\ LET target == req.fullSavePath.v IN
       files' = IF ok
                THEN [f \in DOMAIN files \cup {target} |->
                         IF f = target THEN req.bundleContent ELSE files[f]]
                ELSE files
    /\ requests' = Replace(req, [req EXCEPT !.pc = "written",
                                            !.writeResult = IF ok THEN Resolved
                                                            ELSE SaveError])
    /\ UNCHANGED <<optObjs, bundleObjs, logObjs, instances, configured, calls>>

\* Mutant: the handler is resumed only by a write that succeeded, a failed
\* write leaves it suspended.
WriteResumesOnSuccess(req, F) ==
    /\ req.pc = "written" /\ req.writeResult = Resolved
    /\ requests' = Replace(req, AfterWrite(req, optObjs[instances[req.inst]], logObjs,
                                           files, F))
    /\ UNCHANGED <<optObjs, bundleObjs, logObjs, instances, configured, files, calls>>

\* The handler resumes after the awaited writeFile.
WriteResumes(req, F) ==
    /\ req.pc = "written"
    /\ requests' = Replace(req, AfterWrite(req, optObjs[instances[req.inst]], logObjs,
                                           files, F))
    /\ UNCHANGED <<optObjs, bundleObjs, logObjs, instances, configured, files, calls>>

\* The caller assigns to a key of its options object or of defaultOptions.
AssignOption(id, key, val) ==
    /\ calls < MaxCalls
    /\ optObjs' = [optObjs EXCEPT ![id] =
                      [k \in DOMAIN @ \cup {key} |-> IF k = key THEN val ELSE @[k]]]
    /\ calls' = calls + 1
    /\ UNCHANGED <<bundleObjs, logObjs, instances, configured, requests, files>>

\* The caller assigns to an entry of a bundles object.
AssignBundle(id, requestPath, val) ==
    /\ calls < MaxCalls
    /\ bundleObjs' = [bundleObjs EXCEPT ![id] =
                         [k \in DOMAIN @ \cup {requestPath} |->
                             IF k = requestPath THEN val ELSE @[k]]]
    /\ calls' = calls + 1
    /\ UNCHANGED <<optObjs, logObjs, instances, configured, requests, files>>

\* The caller assigns to a method of a log object.
AssignLog(id, method, fn) ==
    /\ calls < MaxCalls
    /\ logObjs' = [logObjs EXCEPT ![id] =
                      [k \in DOMAIN @ \cup {method} |-> IF k = method THEN fn ELSE @[k]]]
    /\ calls' = calls + 1
    /\ UNCHANGED <<optObjs, bundleObjs, instances, configured, requests, files>>

\* The sets of throwing call sites that differ in effect: a stretch runs
\* until its first throwing call, then into the outer catch block, which
\* calls `next`.
Faults(sites) ==
    {{}, {"catchNext"}} \cup {{site} \cup c : site \in sites, c \in SUBSET {"catchNext"}}

StartFaults == Faults({"next"})
ServeFaults == Faults({"set", "send"})

Next ==
    \/ \E u \in {Undefined, Ref(UserOptionsId)} : Configure(u)
    \/ \E i \in 1..Len(instances), url \in RequestPaths, F \in StartFaults,
          syncThrow \in BOOLEAN : Handle(i, url, F, syncThrow)
    \/ \E req \in BagToSet(requests), outcome \in Contents \cup {CompileError},
          F \in ServeFaults : CompileSettles(req, outcome, F)
    \/ \E req \in BagToSet(requests), ok \in BOOLEAN : WriteSettles(req, ok)
    \/ \E req \in BagToSet(requests), F \in ServeFaults : WriteResumes(req, F)
    \/ \E id \in {DefaultOptionsId, UserOptionsId} :
          AssignOption(id, "savePath", Str(OtherDir))
    \/ \E id \in {DefaultBundlesId, UserBundlesId} :
          AssignBundle(id, PathNone, Str(SourceNone))
    \/ \E id \in {DefaultLogId, UserLogId} : AssignLog(id, "info", "thrower")

Spec == Init /\ [][Next]_vars

\* Requests to middleware made from the caller's options, with a save
\* directory or without, and with any of the caller's log objects.
InitFair ==
    /\ Init
    /\ Get(optObjs[UserOptionsId], "basePath") = Str(BaseDir)

Settle ==
    \/ \E req \in BagToSet(requests), outcome \in Contents \cup {CompileError},
          F \in ServeFaults : CompileSettles(req, outcome, F)
    \/ \E req \in BagToSet(requests), ok \in BOOLEAN : WriteSettles(req, ok)
    \/ \E req \in BagToSet(requests), F \in ServeFaults : WriteResumes(req, F)

\* The caller stops one call earlier than in Spec.
NextFair ==
    \/ calls < MaxCalls - 1 /\ Configure(Ref(UserOptionsId))
    \/ /\ calls < MaxCalls - 1
       /\ \E i \in 1..Len(instances), url \in RequestPaths, F \in StartFaults,
             syncThrow \in BOOLEAN : Handle(i, url, F, syncThrow)
    \/ Settle

\* The createBundle promise and the write of every suspended request settle
\* eventually, and the event loop resumes a handler whose awaited promise
\* has settled.
Fairness == WF_vars(Settle)

FairSpec == InitFair /\ [][NextFair]_vars /\ Fairness

\* Requests whose URL carries a query string or a fragment, to middleware
\* made from the caller's options.
NextUrls ==
    \/ Configure(Ref(UserOptionsId))
    \/ \E i \in 1..Len(instances), url \in RequestUrls, F \in StartFaults,
          syncThrow \in BOOLEAN : Handle(i, url, F, syncThrow)
    \/ \E req \in BagToSet(requests), outcome \in Contents \cup {CompileError},
          F \in ServeFaults : CompileSettles(req, outcome, F)
    \/ \E req \in BagToSet(requests), ok \in BOOLEAN : WriteSettles(req, ok)
    \/ \E req \in BagToSet(requests), F \in ServeFaults : WriteResumes(req, F)

SpecUrls == Init /\ [][NextUrls]_vars

\* middleware(request, response, next) with a createBundle that returns the
\* content itself, not a promise: `returned` keeps the value, and `await`
\* resumes the handler with it in a later turn.
HandleDirect(i, url, F, content) ==
    /\ calls < MaxCalls
    /\ LET began == Begin(i, instances[i], optObjs[instances[i]], bundleObjs, logObjs,
                         url, F, FALSE)
       IN requests' = requests (+) SetToBag({
              IF began.pc = "awaitCompile"
              THEN [began EXCEPT !.pc = "awaitValue", !.returned = content]
              ELSE began})
    /\ calls' = calls + 1
    /\ UNCHANGED <<optObjs, bundleObjs, logObjs, instances, configured, files>>

\* Mutant: the handler calls `.then` on what createBundle returned, a
\* TypeError when that is not a promise.
ValueResumesNotThenable(req, F) ==
    /\ req.pc = "awaitValue"
    /\ requests' = Replace(req, AfterCompile(req, optObjs[instances[req.inst]], logObjs,
                                             files, TypeError, F))
    /\ UNCHANGED <<optObjs, bundleObjs, logObjs, instances, configured, files, calls>>

\* The handler resumes after `await` of a value that is not a promise.
ValueResumes(req, F) ==
    /\ req.pc = "awaitValue"
    /\ requests' = Replace(req, AfterCompile(req, optObjs[instances[req.inst]], logObjs,
                                             files, req.returned, F))
    /\ UNCHANGED <<optObjs, bundleObjs, logObjs, instances, configured, files, calls>>

\* Requests for the bundle where createBundle throws, returns a promise or
\* returns the content itself.
NextValues ==
    \/ Configure(Ref(UserOptionsId))
    \/ \E i \in 1..Len(instances), F \in StartFaults, syncThrow \in BOOLEAN :
          Handle(i, PathCss, F, syncThrow)
    \/ \E i \in 1..Len(instances), F \in StartFaults, content \in Contents :
          HandleDirect(i, PathCss, F, content)
    \/ \E req \in BagToSet(requests), outcome \in Contents \cup {CompileError},
          F \in ServeFaults : CompileSettles(req, outcome, F)
    \/ \E req \in BagToSet(requests), F \in ServeFaults : ValueResumes(req, F)
    \/ \E req \in BagToSet(requests), ok \in BOOLEAN : WriteSettles(req, ok)
    \/ \E req \in BagToSet(requests), F \in ServeFaults : WriteResumes(req, F)

SpecValues == Init /\ [][NextValues]_vars

\* The createBundle promise of the request is one that never settles.
CompileHangs(req) ==
    /\ req.pc = "awaitCompile"
    /\ requests' = Replace(req, [req EXCEPT !.pc = "hungCompile"])
    /\ UNCHANGED <<optObjs, bundleObjs, logObjs, instances, configured, files, calls>>

\* The write of the request is one that never completes.
WriteHangs(req) ==
    /\ req.pc = "awaitWrite"
    /\ requests' = Replace(req, [req EXCEPT !.pc = "hungWrite"])
    /\ UNCHANGED <<optObjs, bundleObjs, logObjs, instances, configured, files, calls>>

\* Requests for the bundle to middleware made with the save directory and the
\* log of the tests, where createBundle and the write may also hang; the
\* response operations and next return normally.
InitHung ==
    /\ Init
    /\ Get(optObjs[UserOptionsId], "savePath") = Str(SaveDir)
    /\ Get(optObjs[UserOptionsId], "basePath") = Str(BaseDir)
    /\ logObjs[UserLogId] = Sinks

SettleReturning ==
    \/ \E req \in BagToSet(requests), outcome \in Contents \cup {CompileError} :
          CompileSettles(req, outcome, {})
    \/ \E req \in BagToSet(requests), ok \in BOOLEAN : WriteSettles(req, ok)
    \/ \E req \in BagToSet(requests) : WriteResumes(req, {})

NextHung ==
    \/ Configure(Ref(UserOptionsId))
    \/ \E i \in 1..Len(instances), syncThrow \in BOOLEAN : Handle(i, PathCss, {}, syncThrow)
    \/ SettleReturning
    \/ \E req \in BagToSet(requests) : CompileHangs(req)
    \/ \E req \in BagToSet(requests) : WriteHangs(req)

\* Every operation that is not one that hangs settles eventually.
HungSpec == InitHung /\ [][NextHung]_vars /\ WF_vars(SettleReturning)

(***************************************************************************)
(* Properties                                                              *)
(***************************************************************************)
Reqs == BagToSet(requests)
Options(req) == optObjs[instances[req.inst]]

\* The positions of the calls of `op` in the trace of a request.
Calls(req, op) == {k \in 1..Len(req.trace) : req.trace[k].op = op}
Count(req, op) == Cardinality(Calls(req, op))
TheCall(req, op) == req.trace[CHOOSE k \in Calls(req, op) : TRUE]

\* The log functions, the response operations and `next` all returned
\* normally in this request (createBundle itself may have thrown).
Nominal(req) ==
    \A k \in 1..Len(req.trace) :
        req.trace[k].op # "createBundle" => req.trace[k].result = "returned"

\* C1: a request whose path is not a key of the configured bundles mapping
\* makes exactly one call, next() with no argument (its continuation
\* returning normally): no createBundle, no writeFile, no response
\* operation, no log entry, and nothing is written to the file system.
C1_PassThrough ==
    \A req \in Reqs :
        (req.lookup = "noKey" /\ Nominal(req)) =>
            /\ req.pc = "done"
            /\ req.trace = <<Event("next", <<>>, "returned")>>
            /\ req.writeResult = Undefined

C1_Witness ==
    \E req \in Reqs :
        /\ req.lookup = "noKey" /\ req.path = PathNone
        /\ Get(Options(req), "bundles") = Ref(UserBundlesId)
        /\ req.trace = <<Event("next", <<>>, "returned")>>

\* C2: a request whose path is a key of bundles (with a source path the
\* handler resolves) invokes createBundle exactly once, with exactly two
\* positional arguments: join(basePath, bundles[path]) and the resolved
\* options object.
C2_TwoPositionalArguments ==
    \A req \in Reqs :
        (req.lookup = "key" /\ IsString(req.fullSourcePath)) =>
            /\ Count(req, "createBundle") = 1
            /\ TheCall(req, "createBundle").args =
                   <<PathJoin(Get(Options(req), "basePath"), req.sourcePath),
                     Ref(instances[req.inst])>>

\* C3: when createBundle fails with E (savePath configured or not; the
\* error sink and the continuation returning normally), next is called
\* exactly once, with E, no response operation is called and no write is
\* issued.
C3_CompileFailure ==
    \A req \in Reqs :
        (req.compileResult = CompileError /\ Nominal(req)) =>
            /\ req.pc = "done"
            /\ Count(req, "next") = 1
            /\ TheCall(req, "next").args = <<CompileError>>
            /\ Count(req, "set") = 0 /\ Count(req, "send") = 0
            /\ Count(req, "writeFile") = 0 /\ req.writeResult = Undefined

C3_Witness ==
    \E req \in Reqs :
        /\ req.compileResult = CompileError /\ Nominal(req)
        /\ IsString(req.fullSavePath)
        /\ req.trace[1].result = "returned"
        /\ Count(req, "next") = 1 /\ TheCall(req, "next").args = <<CompileError>>

\* The response of a fully successful request for content: one Content-Type
\* header with the MIME type of the request path, then one body.
Responded(req, content) ==
    /\ Count(req, "set") = 1 /\ Count(req, "send") = 1
    /\ TheCall(req, "set").args = <<Str(<<"Content-Type">>), MimeGetType(req.path)>>
    /\ req.path = PathCss => TheCall(req, "set").args[2] = Str(<<"text/css">>)
    /\ TheCall(req, "send").args = <<content>>
    /\ \A i \in Calls(req, "set"), j \in Calls(req, "send") : i < j

\* C4: when createBundle succeeds, a save path is configured and the write
\* fails with E (log functions and continuation returning normally), the
\* resumed handler calls next exactly once, with E, and calls no response
\* operation.
C4_SaveFailure ==
    \A req \in Reqs :
        (req.writeResult = SaveError /\ req.pc = "done" /\ Nominal(req)) =>
            /\ req.compileResult \in Contents
            /\ Count(req, "next") = 1
            /\ TheCall(req, "next").args = <<SaveError>>
            /\ Count(req, "set") = 0 /\ Count(req, "send") = 0

C4_Witness ==
    \E req \in Reqs :
        /\ req.writeResult = SaveError /\ req.pc = "done" /\ Nominal(req)
        /\ req.compileResult \in Contents
        /\ Get(Options(req), "savePath") = Str(SaveDir)
        /\ TheCall(req, "next").args = <<SaveError>>

\* C5: when createBundle succeeds with content C for a matched path and no
\* save path is configured (log functions and response operations returning
\* normally), Content-Type is set exactly once to the MIME type of the
\* request path, then C is sent exactly once, no write is issued and next
\* is not called.
C5_ServeWithoutSavePath ==
    \A req \in Reqs :
        (/\ req.compileResult \in Contents /\ req.pc = "done" /\ Nominal(req)
         /\ Get(Options(req), "savePath") = Null) =>
            /\ Responded(req, req.compileResult)
            /\ Count(req, "writeFile") = 0 /\ req.writeResult = Undefined
            /\ Count(req, "next") = 0

C5_Witness ==
    \E req \in Reqs :
        /\ req.compileResult \in Contents /\ req.pc = "done" /\ Nominal(req)
        /\ Get(Options(req), "savePath") = Null
        /\ req.path = PathCss /\ req.fullSourcePath.v = BaseDir \o <<Slash>> \o SourceScss
        /\ TheCall(req, "set").args[2] = Str(<<"text/css">>)
        /\ TheCall(req, "send").args = <<req.compileResult>>

\* The save directory of a request: a configured, non-empty string.
SaveDirOf(req) == Get(Options(req), "savePath")
HasSaveDir(req) == IsString(SaveDirOf(req)) /\ SaveDirOf(req).v # <<>>

\* C6: when createBundle succeeds with content C for a matched path p and
\* savePath is a directory S, exactly one write of C to join(S, p) is
\* issued, the response operations are called only after that write has
\* completed successfully, and then (everything returning normally) the
\* response is the one of the case without savePath and next is not called.
C6_SaveThenServe ==
    \A req \in Reqs :
        (req.compileResult \in Contents /\ HasSaveDir(req) /\ Nominal(req)) =>
            /\ Count(req, "writeFile") = 1
            /\ TheCall(req, "writeFile").args =
                   <<Str(PathJoinStrings(SaveDirOf(req).v, req.path)), req.compileResult>>
            /\ (SaveDirOf(req).v = SaveDir /\ req.path = PathCss) =>
                   TheCall(req, "writeFile").args[1].v = SaveDir \o PathCss
            /\ (Count(req, "set") > 0 \/ Count(req, "send") > 0) =>
                   /\ req.writeResult = Resolved
                   /\ \A w \in Calls(req, "writeFile"),
                         k \in Calls(req, "set") \cup Calls(req, "send") : w < k
            /\ (req.pc = "done" /\ req.writeResult = Resolved) =>
                   Responded(req, req.compileResult) /\ Count(req, "next") = 0

C6_Witness ==
    \E req \in Reqs :
        /\ req.compileResult \in Contents /\ HasSaveDir(req) /\ Nominal(req)
        /\ req.pc = "done" /\ req.writeResult = Resolved
        /\ req.path = PathCss /\ SaveDirOf(req).v = SaveDir
        /\ Get(files, SaveDir \o PathCss) = req.compileResult
        /\ Count(req, "send") = 1

\* C7: whatever createBundle, the write, the log functions, the response
\* operations and next do, a request invokes createBundle at most once,
\* issues at most one write and sends at most one body.
C7_AtMostOnce ==
    \A req \in Reqs :
        /\ Count(req, "createBundle") <= 1
        /\ Count(req, "writeFile") <= 1
        /\ Count(req, "send") <= 1

C7_Witness ==
    \E req \in Reqs :
        /\ req.pc = "done"
        /\ Count(req, "createBundle") = 1
        /\ Count(req, "writeFile") = 1
        /\ Count(req, "send") = 1

\* C8: for any behaviour of createBundle, the write, the log functions and
\* the response operations, a request in which a response operation was
\* called (a header set or a body sent) never has next called.
C8_RespondXorContinue ==
    \A req \in Reqs :
        ~ /\ \E k \in Calls(req, "set") \cup Calls(req, "send") :
                 req.trace[k].result = "returned"
          /\ Count(req, "next") > 0

Sent(req) == Count(req, "send") > 0

\* C9 (as claimed): with savePath configured and any interleaving of
\* requests, when a response with body C is sent for p the file
\* join(savePath, p) holds C.
C9_SavedFileIsWhatWasServed ==
    \A req \in Reqs :
        (Sent(req) /\ HasSaveDir(req)) => req.fileAtSend = TheCall(req, "send").args[1]

\* C9 (amended): with savePath configured, when a response with body C is
\* sent for p the file join(savePath, p) holds C, unless the write of
\* another request to the same file has completed as well: then it holds
\* the content compiled for that request.
C9_SavedFileIsACompletedWrite ==
    \A req \in Reqs :
        (Sent(req) /\ HasSaveDir(req)) =>
            \/ req.fileAtSend = TheCall(req, "send").args[1]
            \/ \E other \in Reqs \ {req} :
                  /\ other.fullSavePath = req.fullSavePath
                  /\ other.writeResult = Resolved
                  /\ other.bundleContent = req.fileAtSend

C9_Witness ==
    \E req \in Reqs, other \in Reqs :
        /\ Sent(req) /\ HasSaveDir(req)
        /\ other.path = req.path /\ other.pc = "awaitWrite"
        /\ other.bundleContent # req.bundleContent
        /\ req.fileAtSend = TheCall(req, "send").args[1]
        /\ Get(files, req.fullSavePath.v) = req.bundleContent

\* What decides how the middleware bound to options object oid handles a
\* request: basePath, savePath, the entries of its bundles and the
\* functions of its log.
Effective(objs, bundles, logs, oid) ==
    LET o == objs[oid] IN
    [basePath |-> Get(o, "basePath"),
     savePath |-> Get(o, "savePath"),
     bundles |-> IF Get(o, "bundles").t = "object"
                 THEN bundles[Get(o, "bundles").v] ELSE Get(o, "bundles"),
     log |-> IF Get(o, "log").t = "object" THEN logs[Get(o, "log").v] ELSE Get(o, "log")]

Configuring == Len(instances') = Len(instances) + 1
Given == configured'[Len(configured')]
GivenKeys == IF Given.t = "object" THEN DOMAIN optObjs[Given.v] ELSE {}
Made == instances'[Len(instances')]

\* defaultOptions and the objects it refers to are as the module defines
\* them.
DefaultsAsLoaded ==
    /\ optObjs[DefaultOptionsId] = DefaultOptions
    /\ bundleObjs[DefaultBundlesId] = Obj({})
    /\ logObjs[DefaultLogId] = [m \in {"info", "error"} |-> "noop"]

C12_ConfigureIsPure ==
    [][Configuring =>
          /\ \A id \in DOMAIN optObjs : optObjs'[id] = optObjs[id]
          /\ bundleObjs' = bundleObjs /\ logObjs' = logObjs
          /\ requests' = requests /\ files' = files
          /\ Made \notin DOMAIN optObjs
          /\ Made \notin {DefaultOptionsId, UserOptionsId}
          /\ \A i \in 1..Len(instances) : instances[i] # Made
          /\ DOMAIN optObjs' = DOMAIN optObjs \cup {Made}
    ]_vars

C12_Witness ==
    /\ Len(instances) = 2
    /\ configured = <<Ref(UserOptionsId), Ref(UserOptionsId)>>
    /\ instances[1] # instances[2]
    /\ optObjs[instances[1]] = optObjs[instances[2]]
    /\ optObjs[UserOptionsId] # optObjs[instances[1]]
    /\ requests = EmptyBag /\ files = Obj({})

\* The messages of a request's log calls (made or attempted).
LogMessages(req) ==
    {req.trace[k].args[1].v : k \in Calls(req, "info") \cup Calls(req, "error")}

\* message is `Bundle "p"` followed by one of the five endings.
IsMessageFor(message, p) ==
    /\ Len(message) > Len(Quoted(p))
    /\ SubSeq(message, 1, Len(Quoted(p))) = Quoted(p)
    /\ message[Len(Quoted(p)) + 1] \in
           {" compiled", " saved", " served", " failed to compile: ", " failed to save: "}

Matched(req) == req.lookup = "key" /\ IsString(req.fullSourcePath)

\* C14: every request for a matched bundle path has invoked createBundle
\* exactly once itself, and, when its compile succeeded and a save directory
\* is configured (its log functions returning normally), has issued its own
\* write, whatever other requests there are, completed or in flight, and
\* whatever files are saved already.  So n matched requests make n calls of
\* createBundle.
C14_NoDeduplication ==
    \A req \in Reqs :
        Matched(req) =>
            /\ Count(req, "createBundle") = 1
            /\ (req.compileResult \in Contents /\ HasSaveDir(req) /\ Nominal(req)) =>
                   /\ Count(req, "writeFile") = 1
                   /\ TheCall(req, "writeFile").args[2] = req.compileResult

C14_Witness ==
    \E req \in Reqs, other \in Reqs :
        /\ req # other /\ req.path = other.path /\ req.inst = other.inst
        /\ Matched(req) /\ Matched(other)
        /\ req.pc = "done" /\ Sent(req) /\ req.writeResult = Resolved
        /\ req.fullSavePath.v \in DOMAIN files
        /\ other.pc = "awaitWrite"
        /\ Count(other, "createBundle") = 1 /\ Count(other, "writeFile") = 1

\* The options make the matching or the path resolution of the request
\* throw: bundles is null or undefined, or, for a path with a source,
\* path.join is given a basePath, a source path or a savePath that is not a
\* string.
MalformedFor(req) ==
    LET o == Options(req) IN
    \/ Get(o, "bundles").t \in {"null", "undefined"}
    \/ /\ Truthy(req.sourcePath)
       /\ \/ ~IsString(Get(o, "basePath"))
          \/ ~IsString(req.sourcePath)
          \/ Truthy(Get(o, "savePath")) /\ ~IsString(Get(o, "savePath"))

\* C15: when the matching or the path resolution throws synchronously, the
\* only call the request makes is next, once, with the error thrown: no
\* createBundle, no log, no write, no response operation.
C15_SynchronousFailureSurfaces ==
    \A req \in Reqs :
        MalformedFor(req) =>
            /\ req.pc = "done"
            /\ Len(req.trace) = 1
            /\ req.trace[1].op = "next" /\ req.trace[1].args = <<TypeError>>
            /\ req.writeResult = Undefined

C15_Witness ==
    \E req \in Reqs :
        /\ req.lookup = "key" /\ req.path = PathCss /\ req.sourcePath = Str(SourceScss)
        /\ Get(Options(req), "basePath") = Str(Cwd)
        /\ Get(Options(req), "savePath") = Num(1)
        /\ req.trace = <<Event("next", <<TypeError>>, "returned")>>

\* The request has ended, its compile and (if issued) its write succeeded
\* and every log function, response operation and next returned normally.
FullySuccessful(req) ==
    /\ req.pc = "done" /\ Nominal(req)
    /\ req.compileResult \in Contents
    /\ req.writeResult \in {Undefined, Resolved}

\* The log calls of a request, in order.
LogCalls(req) == SelectSeq(req.trace, LAMBDA e : e.op \in {"info", "error"})
InfoEntry(message) == Event("info", <<Str(message)>>, "returned")
ErrorEntry(message) == Event("error", <<Str(message)>>, "returned")

\* C16: on a fully successful request for path p the log calls are, in this
\* order and nothing else, info `Bundle "p" compiled`, then (exactly when a
\* save directory is configured) info `Bundle "p" saved`, then info
\* `Bundle "p" served`; log.error is not called; and the served entry comes
\* before the Content-Type header is set and the body is sent.
C16_InfoEntriesInOrder ==
    \A req \in Reqs :
        FullySuccessful(req) =>
            /\ LogCalls(req) =
                   <<InfoEntry(<<"Bundle \"">> \o req.path \o <<"\"", " compiled">>)>>
                   \o (IF HasSaveDir(req)
                       THEN <<InfoEntry(<<"Bundle \"">> \o req.path \o <<"\"", " saved">>)>>
                       ELSE <<>>)
                   \o <<InfoEntry(<<"Bundle \"">> \o req.path \o <<"\"", " served">>)>>
            /\ Count(req, "set") = 1 /\ Count(req, "send") = 1
            /\ \A l \in Calls(req, "info"),
                  k \in Calls(req, "set") \cup Calls(req, "send") : l < k

C16_Witness ==
    \E req \in Reqs, other \in Reqs :
        /\ FullySuccessful(req) /\ HasSaveDir(req) /\ req.path = PathCss
        /\ Len(LogCalls(req)) = 3
        /\ LogCalls(req)[2].args = <<Str(<<"Bundle \"", "/", "a", ".", "c", "s", "s", "\"",
                                           " saved">>)>>
        /\ req.trace[Len(req.trace)].op = "send"
        /\ req.trace[Len(req.trace) - 2].op = "info"
        /\ FullySuccessful(other) /\ other # req

\* C17: a failure is logged exactly once, before it is handed to next (the
\* log functions and next returning normally).  When createBundle fails
\* with E the only log call is error `Bundle "p" failed to compile: ` with
\* the stack of E; when the write fails with E the log calls are info
\* `Bundle "p" compiled`, then error `Bundle "p" failed to save: ` with the
\* stack of E.  No saved or served entry is logged and the error entry comes
\* before the one call next(E).
C17_FailureLoggedOnce ==
    \A req \in Reqs :
        /\ (req.compileResult = CompileError /\ Nominal(req)) =>
               /\ LogCalls(req) =
                      <<ErrorEntry(<<"Bundle \"">> \o req.path
                                   \o <<"\"", " failed to compile: ">>
                                   \o Stack(CompileError))>>
               /\ Count(req, "next") = 1
               /\ TheCall(req, "next").args = <<CompileError>>
               /\ \A l \in Calls(req, "error"), n \in Calls(req, "next") : l < n
        /\ (req.writeResult = SaveError /\ req.pc = "done" /\ Nominal(req)) =>
               /\ LogCalls(req) =
                      <<InfoEntry(<<"Bundle \"">> \o req.path \o <<"\"", " compiled">>),
                        ErrorEntry(<<"Bundle \"">> \o req.path
                                   \o <<"\"", " failed to save: ">> \o Stack(SaveError))>>
               /\ Count(req, "next") = 1
               /\ TheCall(req, "next").args = <<SaveError>>
               /\ \A l \in Calls(req, "error"), n \in Calls(req, "next") : l < n

C17_Witness ==
    \E req \in Reqs, other \in Reqs :
        /\ req.compileResult = CompileError /\ Nominal(req)
        /\ req.trace[1].result = "returned"
        /\ Count(req, "error") = 1 /\ Count(req, "info") = 0
        /\ other.writeResult = SaveError /\ other.pc = "done" /\ Nominal(other)
        /\ Count(other, "error") = 1 /\ Count(other, "info") = 1
        /\ other.trace[Len(other.trace)] = Event("next", <<SaveError>>, "returned")
        /\ Get(logObjs[Get(Options(req), "log").v], "error") = "sink"

\* Every response operation and every call of next the request made
\* returned normally.
ResponseReturned(req) ==
    \A k \in Calls(req, "set") \cup Calls(req, "send") \cup Calls(req, "next") :
        req.trace[k].result = "returned"

\* C18: the outcome of a request is decided by the configuration, the
\* request and the results of createBundle and of the write, whatever the log
\* functions do (return, throw, or be missing from the caller's log object):
\* a compile failure E ends in next(E) alone; a successful compile ends, when
\* the write fails with E, in next(E) alone, and otherwise in the write (with
\* a save directory), the header and the body, without next.
C18_LoggingIsObservational ==
    \A req \in Reqs :
        (req.pc = "done" /\ Matched(req) /\ ResponseReturned(req)) =>
            /\ req.compileResult = CompileError =>
                   /\ Count(req, "next") = 1
                   /\ TheCall(req, "next").args = <<CompileError>>
                   /\ ~Sent(req) /\ Count(req, "writeFile") = 0
            /\ (req.compileResult \in Contents /\ req.writeResult = SaveError) =>
                   /\ Count(req, "next") = 1
                   /\ TheCall(req, "next").args = <<SaveError>>
                   /\ ~Sent(req)
            /\ (req.compileResult \in Contents /\ req.writeResult # SaveError) =>
                   /\ HasSaveDir(req) => req.writeResult = Resolved
                   /\ Count(req, "set") = 1 /\ Count(req, "send") = 1
                   /\ TheCall(req, "send").args = <<req.compileResult>>
                   /\ Count(req, "next") = 0

BodySent(req) == \E k \in Calls(req, "send") : req.trace[k].result = "returned"
NextCalled(req) == Count(req, "next") > 0

\* The calls a request made after its call of op.
After(req, op) == {k \in 1..Len(req.trace) : \A c \in Calls(req, op) : c < k}

AllDone == \A req \in Reqs : req.pc = "done"

\* C20: when the createBundle promise and the write of every request settle
\* eventually (resolved or rejected), every request ends, with exactly one
\* of the two outcomes: the body was sent, or next was called; and the
\* handler makes no call after createBundle before its promise has settled,
\* and none after writeFile before the write has completed.
C20_Progress ==
    /\ [](\A req \in Reqs :
             /\ req.pc = "done" => (BodySent(req) # NextCalled(req))
             /\ req.pc # "done" => (~BodySent(req) /\ ~NextCalled(req))
             /\ (Count(req, "createBundle") = 1 /\ After(req, "createBundle") # {}) =>
                    req.compileResult # Undefined
             /\ (Count(req, "writeFile") = 1 /\ After(req, "writeFile") # {}) =>
                    req.writeResult # Undefined)
    /\ []<>AllDone

C20_Witness ==
    \E req \in Reqs :
        /\ req.pc = "done" /\ req.compileResult \in Contents
        /\ req.writeResult = Resolved
        /\ After(req, "writeFile") # {}
        /\ BodySent(req) /\ ~NextCalled(req)

\* C21: matching is by presence of the request path among the keys of
\* bundles: a request for a key p, whatever string it maps to (the empty
\* string included), with a string basePath and a savePath that is a string
\* or null, invokes createBundle, once, with source path
\* join(basePath, bundles[p]), and is not passed through with next().
C21_MatchByPresence ==
    \A req \in Reqs :
        LET o == Options(req) IN
        (/\ req.lookup = "key" /\ IsString(req.sourcePath)
         /\ IsString(Get(o, "basePath"))
         /\ Get(o, "savePath").t \in {"null", "string"}) =>
            /\ Count(req, "createBundle") = 1
            /\ TheCall(req, "createBundle").args[1].v[3] =
                   Str(PathJoinStrings(Get(o, "basePath").v, req.sourcePath.v))
            /\ \A k \in Calls(req, "next") : req.trace[k].args # <<>>

\* C22: for a matched request whose compile succeeded (the log functions
\* returning normally), a write is issued if and only if savePath is not
\* null or undefined: every string savePath, the empty string included,
\* makes the handler write to join(savePath, path).
C22_SaveIffSavePathPresent ==
    \A req \in Reqs :
        (Matched(req) /\ req.compileResult \in Contents /\ Nominal(req)) =>
            LET savePath == Get(Options(req), "savePath") IN
            /\ Count(req, "writeFile") = IF savePath.t \in {"null", "undefined"} THEN 0 ELSE 1
            /\ \A k \in Calls(req, "writeFile") :
                   req.trace[k].args[1] = Str(PathJoinStrings(savePath.v, req.path))

\* The request's compile or its write failed.
Failed(req) == req.compileResult = CompileError \/ req.writeResult = SaveError

\* C23: failure is terminal.  In a request whose compile or write failed, a
\* call of next with an error is the last call the request ever makes, and
\* the request has ended: nothing is logged, written or sent after it, next
\* is not called again, createBundle was invoked once and writeFile at most
\* once (not at all when the compile failed).
C23_FailureIsTerminal ==
    \A req \in Reqs :
        (Failed(req) /\ NextCalled(req)) =>
            /\ req.pc = "done"
            /\ Calls(req, "next") = {Len(req.trace)}
            /\ req.trace[Len(req.trace)].args # <<>>
            /\ Count(req, "createBundle") = 1
            /\ Count(req, "writeFile") = IF req.compileResult = CompileError THEN 0 ELSE 1
            /\ req.compileResult = CompileError => req.writeResult = Undefined
            /\ Count(req, "set") = 0 /\ Count(req, "send") = 0

C23_Witness ==
    \E req \in Reqs, other \in Reqs :
        /\ req.compileResult = CompileError /\ req.trace[1].result = "returned"
        /\ req.trace[Len(req.trace)] = Event("next", <<CompileError>>, "returned")
        /\ other.writeResult = SaveError /\ Count(other, "writeFile") = 1
        /\ other.trace[Len(other.trace)] = Event("next", <<SaveError>>, "returned")
        /\ other.fullSavePath.v \notin DOMAIN files

\* C24: next is called at most once per request, whatever next itself does
\* (return or throw), in particular when the pass-through call next() of an
\* unmatched request throws.
C24_NextAtMostOnce ==
    \A req \in Reqs : Count(req, "next") <= 1

\* C25: whatever other requests are in flight, for the same path or another,
\* and whatever the log functions, the response operations and next do, the
\* content a request hands to writeFile and the body it sends are the value
\* its own createBundle call resolved with.
C25_OwnCompiledContent ==
    \A req \in Reqs :
        /\ \A k \in Calls(req, "writeFile") :
               /\ req.compileResult \in Contents
               /\ req.trace[k].args[2] = req.compileResult
        /\ \A k \in Calls(req, "send") :
               /\ req.compileResult \in Contents
               /\ req.trace[k].args = <<req.compileResult>>

C25_Witness ==
    \E req \in Reqs, other \in Reqs :
        /\ req.path = other.path /\ req.inst = other.inst
        /\ req.compileResult \in Contents /\ other.compileResult \in Contents
        /\ req.compileResult # other.compileResult
        /\ Count(req, "writeFile") = 1 /\ Count(other, "writeFile") = 1
        /\ Sent(req) /\ TheCall(req, "send").args = <<req.compileResult>>
        /\ req.fileAtSend = other.compileResult

\* The request is suspended at an operation that never completes.
Hung(req) == req.pc \in {"hungCompile", "hungWrite"}

\* C26: a createBundle call or a write that never completes holds only its
\* own request.  That request stays as it is for ever: the call it is
\* suspended at is the last it made, it has not sent a body and has not
\* called next.  Every other request, in flight or started later, for the
\* same path or another, ends with its own outcome (the body sent, or next
\* called).
C26_HungOperationHoldsOnlyItsRequest ==
    /\ [](\A req \in Reqs :
             Hung(req) =>
                 /\ ~BodySent(req) /\ ~NextCalled(req)
                 /\ Count(req, "set") = 0 /\ Count(req, "send") = 0
                 /\ req.trace[Len(req.trace)].op =
                        (IF req.pc = "hungCompile" THEN "createBundle" ELSE "writeFile")
                 /\ req.promise = "pending")
    /\ [][\A req \in Reqs :
             Hung(req) => CopiesIn(req, requests') >= CopiesIn(req, requests)]_vars
    /\ []<>(\A req \in Reqs :
               ~Hung(req) => (req.pc = "done" /\ (BodySent(req) # NextCalled(req))))

C26_Witness ==
    \E req \in Reqs, other \in Reqs :
        /\ req.pc = "hungCompile" /\ other.path = req.path /\ other.inst = req.inst
        /\ other.pc = "done" /\ BodySent(other) /\ other.writeResult = Resolved
        /\ Get(files, other.fullSavePath.v) = other.compileResult

\* How the createBundle call of a request went.
ThrewSynchronously(req) ==
    Count(req, "createBundle") = 1 /\ TheCall(req, "createBundle").result = "threw"
Rejected(req) ==
    /\ Count(req, "createBundle") = 1 /\ TheCall(req, "createBundle").result = "returned"
    /\ req.returned = Undefined /\ req.compileResult = CompileError
ReturnedDirectly(req, content) == req.returned = content
ResolvedWith(req, content) == req.returned = Undefined /\ req.compileResult = content

\* The calls of a request other than the createBundle call.
Others(req) == SelectSeq(req.trace, LAMBDA e : e.op # "createBundle")

\* C27: two ended requests to one middleware for one path (their response
\* operations and next returning normally) make the same calls when
\* createBundle fails or succeeds in either of its two ways.  With
\* createBundle throwing E and createBundle returning a promise rejected
\* with E: the same log calls and the same next(E), and nothing else.  With
\* createBundle returning content C itself and createBundle returning a
\* promise resolved with C: the same compile result, a write issued by both
\* or by neither, and, when their writes ended alike, the same log calls,
\* write and response.
C27_SynchronousAndPromiseAlike ==
    \A r1 \in Reqs, r2 \in Reqs :
        (/\ r1.inst = r2.inst /\ r1.path = r2.path
         /\ r1.pc = "done" /\ r2.pc = "done"
         /\ ResponseReturned(r1) /\ ResponseReturned(r2)) =>
            /\ (ThrewSynchronously(r1) /\ Rejected(r2)) =>
                   /\ Others(r1) = Others(r2)
                   /\ Count(r1, "next") = 1 /\ r1.compileResult = r2.compileResult
            /\ \A content \in Contents :
                   (ReturnedDirectly(r1, content) /\ ResolvedWith(r2, content)) =>
                       /\ r1.compileResult = content
                       /\ Count(r1, "writeFile") = Count(r2, "writeFile")
                       /\ r1.writeResult = r2.writeResult => r1.trace = r2.trace

C27_Witness ==
    \E r1 \in Reqs, r2 \in Reqs, content \in Contents :
        /\ r1.inst = r2.inst /\ r1.path = r2.path
        /\ ReturnedDirectly(r1, content) /\ ResolvedWith(r2, content)
        /\ r1.pc = "done" /\ r2.pc = "done"
        /\ r1.writeResult = Resolved /\ r2.writeResult = Resolved
        /\ BodySent(r1) /\ BodySent(r2) /\ Count(r1, "info") = 3
        /\ r1.trace = r2.trace

\* The error-log calls of a request (made or attempted) whose message is
\* `Bundle "p"` followed by ending.
ErrorCallsEnding(req, ending) ==
    {k \in Calls(req, "error") :
        LET message == req.trace[k].args[1].v IN
        /\ Len(message) > Len(Quoted(req.path))
        /\ message[Len(Quoted(req.path)) + 1] = ending}

\* C28: whatever the log functions do, an error entry `Bundle "p" failed to
\* compile: ...` is logged for a request only if its createBundle call
\* failed, and an entry `Bundle "p" failed to save: ...` only if its write
\* failed.
C28_ErrorEntriesTruthful ==
    \A req \in Reqs :
        /\ ErrorCallsEnding(req, " failed to compile: ") # {} =>
               req.compileResult = CompileError
        /\ ErrorCallsEnding(req, " failed to save: ") # {} =>
               req.writeResult = SaveError

\* Something failed inside the handler: the matching or the path resolution
\* threw, createBundle or the write failed, or a log function or a response
\* operation threw (or was not a function).
FailedInside(req) ==
    \/ MalformedFor(req)
    \/ Failed(req)
    \/ \E k \in 1..Len(req.trace) :
          req.trace[k].op # "next" /\ req.trace[k].result # "returned"

NextReturned(req) == \A k \in Calls(req, "next") : req.trace[k].result = "returned"

\* C29: provided next does not throw, whatever createBundle, the write, the
\* log functions and the response operations do, the promise the handler
\* returned is never rejected and is fulfilled once the request has ended,
\* and every failure inside the handler has been handed to next, as the one
\* argument of its last call.
C29_PromiseNeverRejects ==
    \A req \in Reqs :
        NextReturned(req) =>
            /\ req.promise # "rejected"
            /\ req.promise = "fulfilled" <=> req.pc = "done"
            /\ (req.pc = "done" /\ FailedInside(req)) =>
                   /\ Count(req, "next") = 1
                   /\ req.trace[Len(req.trace)].op = "next"
                   /\ Len(req.trace[Len(req.trace)].args) = 1
                   /\ req.trace[Len(req.trace)].args[1].t = "error"

C29_Witness ==
    \E req \in Reqs :
        /\ req.pc = "done" /\ req.promise = "fulfilled"
        /\ req.compileResult \in Contents /\ req.writeResult = Resolved
        /\ \E k \in Calls(req, "send") : req.trace[k].result = "threw"
        /\ req.trace[Len(req.trace)] = Event("next", <<ResponseError>>, "returned")

====
